---- MODULE Spec2Model ----
(***************************************************************************)
(* Model of Tins::Memory::InputMemoryStream and OutputMemoryStream         *)
(* (include/tins/memory_helpers.h): two bounds-checked cursors over a      *)
(* caller-owned byte buffer.                                               *)
(*                                                                         *)
(* Pointers are offsets into the caller's buffer `mem` (offset 0 is the    *)
(* first byte).  A value of a fixed-size integer type T is the sequence of *)
(* its sizeof(T) base-256 digits, most significant first; its object       *)
(* representation (what memcpy sees) depends on the host byte order.       *)
(***************************************************************************)
EXTENDS Integers, Sequences, FiniteSets, TLC

VARIABLES host,    \* byte order of the machine the code was built for
          mem,     \* the caller-owned byte region both cursors view
          live,    \* which stream objects have been constructed
          input,   \* InputMemoryStream:  [buffer_, size_]
          output,  \* OutputMemoryStream: [orig_buffer_, buffer_, size_]
          call,    \* the most recent call: operation, requested size, outcome
          pc,      \* position of the round-trip caller ("free": any caller)
          job      \* what the round-trip caller serialises

vars == <<host, mem, live, input, output, call, pc, job>>

-----------------------------------------------------------------------------
(* Bounds of the model *)

\* width in bits of the modelled size_t (arithmetic on size_ is modulo 2^SizeBits)
SizeBits == 5
\* longest destination buffer handed to an OutputMemoryStream by the free caller
MaxLen == 4
\* largest value the free caller passes to InputMemoryStream::size(size_t)
MaxTrunc == 6
\* how far past the end of the region the free caller lets a truncated view reach
MaxOver == 2
\* largest byte count the free caller requests from an InputMemoryStream
MaxReq == 17

SizeMod == 2 ^ SizeBits

\* byte regions the free caller parses
Packets ==
    { <<1, 2, 3, 4>>,
      <<170, 187, 204>>,
      <<32, 1, 13, 184, 0, 0, 0, 0, 0, 0, 0, 0, 0, 0, 0, 1>> }

\* what a read past the end of the region may find there
Garbage == {0, 238}

\* source bytes for write(ptr, length) / write(start, end)
Pattern == <<222, 173, 190, 239>>

RawBytes(n) == [i \in 1..n |-> Pattern[((i - 1) % Len(Pattern)) + 1]]

\* sizeof(T) for uint8_t, uint16_t, uint32_t, uint64_t
Widths == {1, 2, 4, 8}

\* values of type T (most significant byte first) the callers write
Values(w) ==
    CASE w = 1 -> { <<171>>, <<0>> }
      [] w = 2 -> { <<18, 52>>, <<86, 120>> }
      [] w = 4 -> { <<1, 2, 3, 4>> }
      [] w = 8 -> { <<1, 2, 3, 4, 5, 6, 7, 8>> }

FillBytes == {255}

Hosts == {"little", "big"}

-----------------------------------------------------------------------------
(* Helpers *)

Reverse(s) == [i \in 1..Len(s) |-> s[Len(s) + 1 - i]]

\* size_t subtraction
SizeSub(a, b) == (a - b) % SizeMod

\* the n bytes at offset off; g (repeated as needed) supplies what lies past
\* the end of m
Peek(m, g, off, n) ==
    [i \in 1..n |->
        IF off + i <= Len(m) THEN m[off + i]
        ELSE g[((off + i - Len(m) - 1) % Len(g)) + 1]]

\* m with bytes stored at offset off
Poke(m, off, bytes) ==
    [i \in 1..Len(m) |->
        IF i > off /\ i <= off + Len(bytes) THEN bytes[i - off] ELSE m[i]]

\* number of bytes of [off, off+n) that lie outside m
Overrun(m, off, n) == IF off + n > Len(m) THEN off + n - Len(m) ELSE 0

GarbageSeqs(k) == [1..k -> Garbage]

-----------------------------------------------------------------------------
(* Error kinds (exceptions.h) *)

NoThrow == "none"
malformed_packet == "malformed_packet"
serialization_error == "serialization_error"

-----------------------------------------------------------------------------
(* endianness.h: conversions between the host's order and a wire order.    *)
(* A value is its digits, most significant first, so exchanging the byte   *)
(* order of a value reverses them.                                         *)

do_change_endian(v) == Reverse(v)

host_to_be(h, v) == IF h = "little" THEN do_change_endian(v) ELSE v

host_to_le(h, v) == IF h = "little" THEN v ELSE do_change_endian(v)

be_to_host(h, v) == IF h = "little" THEN do_change_endian(v) ELSE v

le_to_host(h, v) == IF h = "little" THEN v ELSE do_change_endian(v)

-----------------------------------------------------------------------------
(* Free functions of namespace Memory.  memcpy to or from a T object       *)
(* copies its object representation: least significant byte first on a     *)
(* little-endian host, most significant first on a big-endian one.         *)

\* read_value(buffer, value): the T value whose object representation is bytes
read_value(h, bytes) == IF h = "little" THEN Reverse(bytes) ELSE bytes

\* write_value(buffer, value): the object representation of value
write_value(h, value) == IF h = "little" THEN Reverse(value) ELSE value

\* read_data(buffer, output_buffer, size): the bytes copied out
read_data(bytes) == bytes

\* write_data / std::copy into the buffer: the bytes copied in
write_data(bytes) == bytes

-----------------------------------------------------------------------------
(* InputMemoryStream.  Each operation maps a stream s = [buffer_, size_]    *)
(* to [thrown, s, value]: the exception thrown (or none), the stream after  *)
(* the call and the value delivered to the caller.                         *)

Unconstructed == [buffer_ |-> 0, size_ |-> 0]

\* InputMemoryStream(const std::vector<uint8_t>& data)
InputMemoryStream(data) == [buffer_ |-> 0, size_ |-> Len(data)]

\* skip with the subtraction dropped: the pointer moves, size_ stays
InputMemoryStream_skip_keeps_size(s, size) ==
    IF size > s.size_
    THEN [thrown |-> malformed_packet, s |-> s, value |-> <<>>]
    ELSE [thrown |-> NoThrow, s |-> [s EXCEPT !.buffer_ = @ + size], value |-> <<>>]

\* skip with size_ += size in place of size_ -= size
InputMemoryStream_skip_adds(s, size) ==
    IF size > s.size_
    THEN [thrown |-> malformed_packet, s |-> s, value |-> <<>>]
    ELSE [thrown |-> NoThrow,
          s |-> [s EXCEPT !.buffer_ = @ + size, !.size_ = (@ + size) % SizeMod],
          value |-> <<>>]

\* skip with the bounds check dropped
InputMemoryStream_skip_unchecked(s, size) ==
    [thrown |-> NoThrow,
     s |-> [s EXCEPT !.buffer_ = @ + size, !.size_ = SizeSub(@, size)],
     value |-> <<>>]

\* skip with >= in place of > in its bounds check
InputMemoryStream_skip_strict(s, size) ==
    IF size >= s.size_
    THEN [thrown |-> malformed_packet, s |-> s, value |-> <<>>]
    ELSE [thrown |-> NoThrow,
          s |-> [s EXCEPT !.buffer_ = @ + size, !.size_ = SizeSub(@, size)],
          value |-> <<>>]

InputMemoryStream_skip(s, size) ==
    IF size > s.size_
    THEN [thrown |-> malformed_packet, s |-> s, value |-> <<>>]
    ELSE [thrown |-> NoThrow,
          s |-> [s EXCEPT !.buffer_ = @ + size, !.size_ = SizeSub(@, size)],
          value |-> <<>>]

\* can_read with > in place of >=
can_read_strict(s, byte_count) == s.size_ > byte_count

can_read(s, byte_count) == s.size_ >= byte_count

InputMemoryStream_pointer(s) == s.buffer_

\* read(T&) that consumes what is left before it reports the short buffer
InputMemoryStream_read_ref_partial(h, m, g, s, w) ==
    IF ~can_read(s, w)
    THEN [thrown |-> malformed_packet,
          s |-> [s EXCEPT !.buffer_ = @ + s.size_, !.size_ = 0],
          value |-> <<>>]
    ELSE LET value == read_value(h, Peek(m, g, s.buffer_, w))
             r == InputMemoryStream_skip(s, w)
         IN  [thrown |-> r.thrown, s |-> r.s, value |-> value]

\* template <typename T> void read(T& value), sizeof(value) = w
InputMemoryStream_read_ref(h, m, g, s, w) ==
    IF ~can_read(s, w)
    THEN [thrown |-> malformed_packet, s |-> s, value |-> <<>>]
    ELSE LET value == read_value(h, Peek(m, g, s.buffer_, w))
             r == InputMemoryStream_skip(s, w)
         IN  [thrown |-> r.thrown, s |-> r.s, value |-> value]

\* template <typename T> T read()
InputMemoryStream_read(h, m, g, s, w) == InputMemoryStream_read_ref(h, m, g, s, w)

\* read_le that converts from big-endian order
read_le_from_be(h, m, g, s, w) ==
    LET r == InputMemoryStream_read(h, m, g, s, w)
    IN  IF r.thrown # NoThrow THEN r ELSE [r EXCEPT !.value = be_to_host(h, @)]

read_le(h, m, g, s, w) ==
    LET r == InputMemoryStream_read(h, m, g, s, w)
    IN  IF r.thrown # NoThrow THEN r ELSE [r EXCEPT !.value = le_to_host(h, @)]

\* read_be with the conversion dropped: the value in host order
read_be_unconverted(h, m, g, s, w) == InputMemoryStream_read(h, m, g, s, w)

read_be(h, m, g, s, w) ==
    LET r == InputMemoryStream_read(h, m, g, s, w)
    IN  IF r.thrown # NoThrow THEN r ELSE [r EXCEPT !.value = be_to_host(h, @)]

\* read(vector, count) that copies after advancing the cursor
InputMemoryStream_read_vector_after_skip(m, g, s, count) ==
    IF s.size_ < count
    THEN [thrown |-> malformed_packet, s |-> s, value |-> <<>>]
    ELSE LET r == InputMemoryStream_skip(s, count)
         IN  [thrown |-> r.thrown, s |-> r.s,
              value |-> Peek(m, g, r.s.buffer_, count)]

\* void read(std::vector<uint8_t>& value, size_t count)
InputMemoryStream_read_vector(m, g, s, count) ==
    IF ~can_read(s, count)
    THEN [thrown |-> malformed_packet, s |-> s, value |-> <<>>]
    ELSE LET value == Peek(m, g, InputMemoryStream_pointer(s), count)
             r == InputMemoryStream_skip(s, count)
         IN  [thrown |-> r.thrown, s |-> r.s, value |-> value]

\* void read(void* output_buffer, size_t output_buffer_size)
InputMemoryStream_read_void(m, g, s, output_buffer_size) ==
    IF ~can_read(s, output_buffer_size)
    THEN [thrown |-> malformed_packet, s |-> s, value |-> <<>>]
    ELSE LET value == read_data(Peek(m, g, s.buffer_, output_buffer_size))
             r == InputMemoryStream_skip(s, output_buffer_size)
         IN  [thrown |-> r.thrown, s |-> r.s, value |-> value]

InputMemoryStream_size(s) == s.size_

\* size(new_size) that refuses to widen the view
InputMemoryStream_set_size_clamped(s, new_size) ==
    [s EXCEPT !.size_ = IF new_size < @ THEN new_size ELSE @]

\* void size(size_t new_size)
InputMemoryStream_set_size(s, new_size) == [s EXCEPT !.size_ = new_size]

\* operator bool with >= in place of >
InputMemoryStream_bool_nonneg(s) == s.size_ >= 0

InputMemoryStream_bool(s) == s.size_ > 0

\* ipv6_address.h: IPv6Address::address_size
IPv6Address_address_size == 16

\* hw_address.h: HWAddress<n>::address_size = n; the instantiations the callers use
HWAddress_sizes == {6}

\* void read(IPv4Address& address): the address holds the uint32_t as read
InputMemoryStream_read_IPv4Address(h, m, g, s) == InputMemoryStream_read(h, m, g, s, 4)

\* void read(IPv6Address& address): the address copies address_size bytes at pointer()
InputMemoryStream_read_IPv6Address(m, g, s) ==
    IF ~can_read(s, IPv6Address_address_size)
    THEN [thrown |-> malformed_packet, s |-> s, value |-> <<>>]
    ELSE LET address == Peek(m, g, InputMemoryStream_pointer(s), IPv6Address_address_size)
             r == InputMemoryStream_skip(s, IPv6Address_address_size)
         IN  [thrown |-> r.thrown, s |-> r.s, value |-> address]

\* template <size_t n> void read(HWAddress<n>& address)
InputMemoryStream_read_HWAddress(m, g, s, n) ==
    IF ~can_read(s, n)
    THEN [thrown |-> malformed_packet, s |-> s, value |-> <<>>]
    ELSE LET address == Peek(m, g, InputMemoryStream_pointer(s), n)
             r == InputMemoryStream_skip(s, n)
         IN  [thrown |-> r.thrown, s |-> r.s, value |-> address]

-----------------------------------------------------------------------------
(* OutputMemoryStream.  Each operation maps a stream                        *)
(* s = [orig_buffer_, buffer_, size_] and the destination m to              *)
(* [thrown, s, m].                                                          *)

\* OutputMemoryStream(std::vector<uint8_t>& buffer)
OutputMemoryStream(buffer) == [orig_buffer_ |-> 0, buffer_ |-> 0, size_ |-> Len(buffer)]

\* skip with the subtraction dropped: the pointer moves, size_ stays
OutputMemoryStream_skip_keeps_size(m, s, size) ==
    IF size > s.size_
    THEN [thrown |-> malformed_packet, s |-> s, m |-> m]
    ELSE [thrown |-> NoThrow, s |-> [s EXCEPT !.buffer_ = @ + size], m |-> m]

\* skip that ignores a request beyond size_ instead of throwing
OutputMemoryStream_skip_silent(m, s, size) ==
    IF size > s.size_
    THEN [thrown |-> NoThrow, s |-> s, m |-> m]
    ELSE [thrown |-> NoThrow,
          s |-> [s EXCEPT !.buffer_ = @ + size, !.size_ = SizeSub(@, size)],
          m |-> m]

OutputMemoryStream_skip(m, s, size) ==
    IF size > s.size_
    THEN [thrown |-> malformed_packet, s |-> s, m |-> m]
    ELSE [thrown |-> NoThrow,
          s |-> [s EXCEPT !.buffer_ = @ + size, !.size_ = SizeSub(@, size)],
          m |-> m]

\* write(const T&) that stores at orig_buffer_ in place of buffer_
OutputMemoryStream_write_at_origin(h, m, s, value) ==
    IF s.size_ < Len(value)
    THEN [thrown |-> serialization_error, s |-> s, m |-> m]
    ELSE OutputMemoryStream_skip(Poke(m, s.orig_buffer_, write_value(h, value)), s,
                                 Len(value))

\* template <typename T> void write(const T& value), sizeof(value) = Len(value)
OutputMemoryStream_write(h, m, s, value) ==
    IF s.size_ < Len(value)
    THEN [thrown |-> serialization_error, s |-> s, m |-> m]
    ELSE OutputMemoryStream_skip(Poke(m, s.buffer_, write_value(h, value)), s, Len(value))

write_be(h, m, s, value) == OutputMemoryStream_write(h, m, s, host_to_be(h, value))

write_le(h, m, s, value) == OutputMemoryStream_write(h, m, s, host_to_le(h, value))

\* write(start, end) with the closing skip(length) dropped
OutputMemoryStream_write_range_no_skip(m, s, range) ==
    LET length == Len(range)
    IN  IF s.size_ < length
        THEN [thrown |-> serialization_error, s |-> s, m |-> m]
        ELSE [thrown |-> NoThrow, s |-> s, m |-> Poke(m, s.buffer_, write_data(range))]

\* write(start, end) with <= in place of < in its bounds check
OutputMemoryStream_write_range_strict(m, s, range) ==
    IF s.size_ <= Len(range)
    THEN [thrown |-> serialization_error, s |-> s, m |-> m]
    ELSE [thrown |-> NoThrow,
          s |-> [s EXCEPT !.buffer_ = @ + Len(range), !.size_ = SizeSub(@, Len(range))],
          m |-> Poke(m, s.buffer_, range)]

\* template <typename ForwardIterator> void write(ForwardIterator start, ForwardIterator end)
OutputMemoryStream_write_range(m, s, range) ==
    LET length == Len(range)
    IN  IF s.size_ < length
        THEN [thrown |-> serialization_error, s |-> s, m |-> m]
        ELSE OutputMemoryStream_skip(Poke(m, s.buffer_, write_data(range)), s, length)

\* void write(const uint8_t* ptr, size_t length)
OutputMemoryStream_write_ptr(m, s, bytes) == OutputMemoryStream_write_range(m, s, bytes)

\* void write(const IPv4Address& address): static_cast<uint32_t>(address)
OutputMemoryStream_write_IPv4Address(h, m, s, address) ==
    OutputMemoryStream_write(h, m, s, address)

\* void write(const IPv6Address& address)
OutputMemoryStream_write_IPv6Address(m, s, address) ==
    OutputMemoryStream_write_range(m, s, address)

\* template <size_t n> void write(const HWAddress<n>& address)
OutputMemoryStream_write_HWAddress(m, s, address) ==
    OutputMemoryStream_write_range(m, s, address)

\* fill with <= in place of < in its bounds check
fill_off_by_one(m, s, size, value) ==
    IF s.size_ <= size
    THEN [thrown |-> serialization_error, s |-> s, m |-> m]
    ELSE OutputMemoryStream_skip(Poke(m, s.buffer_, [i \in 1..size |-> value]), s, size)

\* fill that stores one byte more than it advances over
fill_one_more(m, s, size, value) ==
    IF s.size_ < size
    THEN [thrown |-> serialization_error, s |-> s, m |-> m]
    ELSE [thrown |-> NoThrow,
          s |-> [s EXCEPT !.buffer_ = @ + size, !.size_ = SizeSub(@, size)],
          m |-> Poke(m, s.buffer_, [i \in 1..(size + 1) |-> value])]

\* void fill(size_t size, uint8_t value)
fill(m, s, size, value) ==
    IF s.size_ < size
    THEN [thrown |-> serialization_error, s |-> s, m |-> m]
    ELSE OutputMemoryStream_skip(Poke(m, s.buffer_, [i \in 1..size |-> value]), s, size)

OutputMemoryStream_pointer(s) == s.buffer_

OutputMemoryStream_size(s) == s.size_

written_size(s) == s.buffer_ - s.orig_buffer_

-----------------------------------------------------------------------------
(* The free caller: one stream over a buffer, any operations in any order.  *)

IMS == "InputMemoryStream"
OMS == "OutputMemoryStream"

NoOutput == [orig_buffer_ |-> 0, buffer_ |-> 0, size_ |-> 0]

NoJob == [w |-> 0, v |-> <<>>, order |-> "none"]

Zeros(n) == [i \in 1..n |-> 0]

\* addresses the callers write, as their raw bytes
IPv6Addresses == { <<254, 128, 0, 0, 0, 0, 0, 0, 2, 12, 41, 255, 254, 171, 205, 239>> }

HWAddresses(n) == { [i \in 1..n |-> 16 * i + i] }

\* a call record: the stream it was made on, the operation, the byte count it
\* requested, its argument, the exception it threw, what it returned
Called(on, op, size, arg, thrown, ret, flag) ==
    [on |-> on, op |-> op, size |-> size, arg |-> arg, thrown |-> thrown,
     ret |-> ret, flag |-> flag]

InitInput ==
    /\ mem \in Packets
    /\ live = {IMS}
    /\ input = InputMemoryStream(mem)
    /\ output = NoOutput

InitOutput ==
    /\ \E n \in 0..MaxLen : mem = Zeros(n)
    /\ live = {OMS}
    /\ input = Unconstructed
    /\ output = OutputMemoryStream(mem)

Init ==
    /\ host \in Hosts
    /\ InitInput \/ InitOutput
    /\ call = Called("caller", "construct", 0, <<>>, NoThrow, <<>>, FALSE)
    /\ pc = "free"
    /\ job = NoJob

\* the effect of an InputMemoryStream call with outcome r
InputCall(op, size, r) ==
    /\ input' = r.s
    /\ call' = Called(IMS, op, size, <<>>, r.thrown, r.value, FALSE)
    /\ UNCHANGED <<host, mem, live, output, pc, job>>

\* the effect of an InputMemoryStream query answering flag
InputQuery(op, size, flag) ==
    /\ call' = Called(IMS, op, size, <<>>, NoThrow, <<>>, flag)
    /\ UNCHANGED <<host, mem, live, input, output, pc, job>>

\* the effect of an OutputMemoryStream call with outcome r
OutputCall(op, size, arg, r) ==
    /\ output' = r.s
    /\ mem' = r.m
    /\ call' = Called(OMS, op, size, arg, r.thrown, <<>>, FALSE)
    /\ UNCHANGED <<host, live, input, pc, job>>

\* what lies past the region for a read of n bytes at the cursor
Beyond(n) ==
    LET k == Overrun(mem, input.buffer_, n)
    IN  GarbageSeqs(IF k > MaxOver THEN MaxOver ELSE k)

ISkip ==
    /\ pc = "free" /\ IMS \in live
    /\ \E n \in 0..MaxReq : InputCall("skip", n, InputMemoryStream_skip(input, n))

ICanRead ==
    /\ pc = "free" /\ IMS \in live
    /\ \E n \in 0..MaxReq : InputQuery("can_read", n, can_read(input, n))

IRead ==
    /\ pc = "free" /\ IMS \in live
    /\ \E w \in Widths : \E g \in Beyond(w) :
          InputCall("read", w, InputMemoryStream_read(host, mem, g, input, w))

IReadLE ==
    /\ pc = "free" /\ IMS \in live
    /\ \E w \in Widths : \E g \in Beyond(w) :
          InputCall("read_le", w, read_le(host, mem, g, input, w))

IReadBE ==
    /\ pc = "free" /\ IMS \in live
    /\ \E w \in Widths : \E g \in Beyond(w) :
          InputCall("read_be", w, read_be(host, mem, g, input, w))

IReadVector ==
    /\ pc = "free" /\ IMS \in live
    /\ \E n \in 0..MaxReq : \E g \in Beyond(n) :
          InputCall("read_vector", n, InputMemoryStream_read_vector(mem, g, input, n))

IReadVoid ==
    /\ pc = "free" /\ IMS \in live
    /\ \E n \in 0..MaxReq : \E g \in Beyond(n) :
          InputCall("read_void", n, InputMemoryStream_read_void(mem, g, input, n))

IReadIPv4 ==
    /\ pc = "free" /\ IMS \in live
    /\ \E g \in Beyond(4) :
          InputCall("read_IPv4Address", 4,
                    InputMemoryStream_read_IPv4Address(host, mem, g, input))

IReadIPv6 ==
    /\ pc = "free" /\ IMS \in live
    /\ \E g \in Beyond(IPv6Address_address_size) :
          InputCall("read_IPv6Address", IPv6Address_address_size,
                    InputMemoryStream_read_IPv6Address(mem, g, input))

IReadHW ==
    /\ pc = "free" /\ IMS \in live
    /\ \E n \in HWAddress_sizes : \E g \in Beyond(n) :
          InputCall("read_HWAddress", n,
                    InputMemoryStream_read_HWAddress(mem, g, input, n))

ISetSize ==
    /\ pc = "free" /\ IMS \in live
    /\ \E n \in 0..MaxTrunc :
          /\ input.buffer_ + n <= Len(mem) + MaxOver
          /\ InputCall("size", n,
                       [thrown |-> NoThrow, s |-> InputMemoryStream_set_size(input, n),
                        value |-> <<>>])

IBool ==
    /\ pc = "free" /\ IMS \in live
    /\ InputQuery("bool", 0, InputMemoryStream_bool(input))

OSkip ==
    /\ pc = "free" /\ OMS \in live
    /\ \E n \in 0..(MaxLen + 1) :
          OutputCall("skip", n, <<>>, OutputMemoryStream_skip(mem, output, n))

OWrite ==
    /\ pc = "free" /\ OMS \in live
    /\ \E w \in Widths : \E v \in Values(w) :
          OutputCall("write", w, v, OutputMemoryStream_write(host, mem, output, v))

OWriteBE ==
    /\ pc = "free" /\ OMS \in live
    /\ \E w \in Widths : \E v \in Values(w) :
          OutputCall("write_be", w, v, write_be(host, mem, output, v))

OWriteLE ==
    /\ pc = "free" /\ OMS \in live
    /\ \E w \in Widths : \E v \in Values(w) :
          OutputCall("write_le", w, v, write_le(host, mem, output, v))

OWriteRange ==
    /\ pc = "free" /\ OMS \in live
    /\ \E n \in 0..(MaxLen + 1) :
          OutputCall("write_range", n, RawBytes(n),
                     OutputMemoryStream_write_range(mem, output, RawBytes(n)))

OWritePtr ==
    /\ pc = "free" /\ OMS \in live
    /\ \E n \in 0..(MaxLen + 1) :
          OutputCall("write_ptr", n, RawBytes(n),
                     OutputMemoryStream_write_ptr(mem, output, RawBytes(n)))

OWriteIPv4 ==
    /\ pc = "free" /\ OMS \in live
    /\ \E a \in Values(4) :
          OutputCall("write_IPv4Address", 4, a,
                     OutputMemoryStream_write_IPv4Address(host, mem, output, a))

OWriteIPv6 ==
    /\ pc = "free" /\ OMS \in live
    /\ \E a \in IPv6Addresses :
          OutputCall("write_IPv6Address", IPv6Address_address_size, a,
                     OutputMemoryStream_write_IPv6Address(mem, output, a))

OWriteHW ==
    /\ pc = "free" /\ OMS \in live
    /\ \E n \in HWAddress_sizes : \E a \in HWAddresses(n) :
          OutputCall("write_HWAddress", n, a,
                     OutputMemoryStream_write_HWAddress(mem, output, a))

OFill ==
    /\ pc = "free" /\ OMS \in live
    /\ \E n \in 0..(MaxLen + 1) : \E b \in FillBytes :
          OutputCall("fill", n, <<b>>, fill(mem, output, n, b))

Next ==
    \/ ISkip \/ ICanRead \/ IRead \/ IReadLE \/ IReadBE \/ IReadVector \/ IReadVoid
    \/ IReadIPv4 \/ IReadIPv6 \/ IReadHW \/ ISetSize \/ IBool
    \/ OSkip \/ OWrite \/ OWriteBE \/ OWriteLE \/ OWriteRange \/ OWritePtr
    \/ OWriteIPv4 \/ OWriteIPv6 \/ OWriteHW \/ OFill

Spec == Init /\ [][Next]_vars

-----------------------------------------------------------------------------
(* The zero-writing caller: one OutputMemoryStream over a zeroed buffer, any *)
(* operations of any length in any order, every byte stored being zero, so   *)
(* that the buffer's content stays fixed and only positions and sizes move.  *)

ExhaustionInit ==
    /\ host \in Hosts
    /\ InitOutput
    /\ call = Called("caller", "construct", 0, <<>>, NoThrow, <<>>, FALSE)
    /\ pc = "free"
    /\ job = NoJob

ZSkip ==
    \E n \in 0..(MaxLen + 1) :
        OutputCall("skip", n, <<>>, OutputMemoryStream_skip(mem, output, n))

ZWrite ==
    \E w \in Widths :
        OutputCall("write", w, Zeros(w),
                   OutputMemoryStream_write(host, mem, output, Zeros(w)))

ZWriteBE ==
    \E w \in Widths :
        OutputCall("write_be", w, Zeros(w), write_be(host, mem, output, Zeros(w)))

ZWriteLE ==
    \E w \in Widths :
        OutputCall("write_le", w, Zeros(w), write_le(host, mem, output, Zeros(w)))

ZWriteRange ==
    \E n \in 0..(MaxLen + 1) :
        OutputCall("write_range", n, Zeros(n),
                   OutputMemoryStream_write_range(mem, output, Zeros(n)))

ZWritePtr ==
    \E n \in 0..(MaxLen + 1) :
        OutputCall("write_ptr", n, Zeros(n),
                   OutputMemoryStream_write_ptr(mem, output, Zeros(n)))

ZWriteIPv4 ==
    OutputCall("write_IPv4Address", 4, Zeros(4),
               OutputMemoryStream_write_IPv4Address(host, mem, output, Zeros(4)))

ZWriteIPv6 ==
    OutputCall("write_IPv6Address", IPv6Address_address_size,
               Zeros(IPv6Address_address_size),
               OutputMemoryStream_write_IPv6Address(mem, output,
                                                    Zeros(IPv6Address_address_size)))

ZWriteHW ==
    \E n \in HWAddress_sizes :
        OutputCall("write_HWAddress", n, Zeros(n),
                   OutputMemoryStream_write_HWAddress(mem, output, Zeros(n)))

ZFill ==
    \E n \in 0..(MaxLen + 1) :
        OutputCall("fill", n, <<0>>, fill(mem, output, n, 0))

ExhaustionNext ==
    \/ ZSkip \/ ZWrite \/ ZWriteBE \/ ZWriteLE \/ ZWriteRange \/ ZWritePtr
    \/ ZWriteIPv4 \/ ZWriteIPv6 \/ ZWriteHW \/ ZFill

ExhaustionSpec == ExhaustionInit /\ [][ExhaustionNext]_vars

-----------------------------------------------------------------------------
(* The round-trip caller: serialises one value of an integer type T into a  *)
(* fresh buffer of sizeof(T) bytes in one wire order, constructs an         *)
(* InputMemoryStream over that buffer and reads the value back in the same  *)
(* order.                                                                   *)

RoundTripValues(w) ==
    CASE w = 1 -> { <<0>>, <<1>>, <<171>>, <<255>> }
      [] w = 2 -> { <<18, 52>>, <<86, 120>>, <<0, 1>>, <<255, 0>> }
      [] w = 4 -> { <<1, 2, 3, 4>>, <<222, 173, 190, 239>>, <<0, 0, 0, 1>>,
                    <<128, 0, 0, 0>> }
      [] w = 8 -> { <<1, 2, 3, 4, 5, 6, 7, 8>>, <<0, 0, 0, 0, 0, 0, 0, 1>>,
                    <<255, 238, 221, 204, 187, 170, 153, 136>>,
                    <<128, 0, 0, 0, 0, 0, 0, 0>> }

Jobs ==
    UNION { { [w |-> w, v |-> v, order |-> o] : v \in RoundTripValues(w), o \in {"le", "be"} }
            : w \in Widths }

RoundTripInit ==
    /\ host \in Hosts
    /\ job \in Jobs
    /\ mem = Zeros(job.w)
    /\ live = {OMS}
    /\ input = Unconstructed
    /\ output = OutputMemoryStream(mem)
    /\ call = Called("caller", "construct", 0, <<>>, NoThrow, <<>>, FALSE)
    /\ pc = "write"

RoundTripWriteLE ==
    /\ pc = "write" /\ job.order = "le"
    /\ LET r == write_le(host, mem, output, job.v)
       IN  /\ output' = r.s
           /\ mem' = r.m
           /\ call' = Called(OMS, "write_le", job.w, job.v, r.thrown, <<>>, FALSE)
    /\ pc' = "construct"
    /\ UNCHANGED <<host, live, input, job>>

RoundTripWriteBE ==
    /\ pc = "write" /\ job.order = "be"
    /\ LET r == write_be(host, mem, output, job.v)
       IN  /\ output' = r.s
           /\ mem' = r.m
           /\ call' = Called(OMS, "write_be", job.w, job.v, r.thrown, <<>>, FALSE)
    /\ pc' = "construct"
    /\ UNCHANGED <<host, live, input, job>>

RoundTripConstruct ==
    /\ pc = "construct"
    /\ input' = InputMemoryStream(mem)
    /\ live' = live \cup {IMS}
    /\ call' = Called("caller", "construct", 0, <<>>, NoThrow, <<>>, FALSE)
    /\ pc' = "read"
    /\ UNCHANGED <<host, mem, output, job>>

RoundTripReadLE ==
    /\ pc = "read" /\ job.order = "le"
    /\ LET r == read_le(host, mem, <<>>, input, job.w)
       IN  /\ input' = r.s
           /\ call' = Called(IMS, "read_le", job.w, <<>>, r.thrown, r.value, FALSE)
    /\ pc' = "done"
    /\ UNCHANGED <<host, mem, live, output, job>>

RoundTripReadBE ==
    /\ pc = "read" /\ job.order = "be"
    /\ LET r == read_be(host, mem, <<>>, input, job.w)
       IN  /\ input' = r.s
           /\ call' = Called(IMS, "read_be", job.w, <<>>, r.thrown, r.value, FALSE)
    /\ pc' = "done"
    /\ UNCHANGED <<host, mem, live, output, job>>

RoundTripNext ==
    \/ RoundTripWriteLE \/ RoundTripWriteBE \/ RoundTripConstruct
    \/ RoundTripReadLE \/ RoundTripReadBE

RoundTripSpec == RoundTripInit /\ [][RoundTripNext]_vars

-----------------------------------------------------------------------------
(* The address caller: writes one address into a fresh buffer at least as   *)
(* long as the address, constructs an InputMemoryStream over that buffer    *)
(* and reads an address of the same type back.  An IPv4Address is the       *)
(* uint32_t it holds; an IPv6Address or HWAddress<n> is its bytes.          *)

\* how many bytes longer than the address the address caller's buffer may be
MaxSlack == 2

AddressJobs ==
    { [w |-> 4, v |-> a, order |-> "IPv4"] : a \in RoundTripValues(4) }
    \cup
    { [w |-> IPv6Address_address_size, v |-> a, order |-> "IPv6"] :
        a \in { <<254, 128, 0, 0, 0, 0, 0, 0, 2, 12, 41, 255, 254, 171, 205, 239>>,
                <<32, 1, 13, 184, 0, 0, 0, 0, 0, 0, 0, 0, 0, 0, 0, 1>>,
                <<0, 0, 0, 0, 0, 0, 0, 0, 0, 0, 0, 0, 0, 0, 0, 1>> } }
    \cup
    { [w |-> 6, v |-> a, order |-> "HW"] :
        a \in { <<0, 12, 41, 171, 205, 239>>, <<255, 255, 255, 255, 255, 255>>,
                <<1, 2, 3, 4, 5, 6>> } }

AddressInit ==
    /\ host \in Hosts
    /\ job \in AddressJobs
    /\ \E extra \in 0..MaxSlack : mem = Zeros(job.w + extra)
    /\ live = {OMS}
    /\ input = Unconstructed
    /\ output = OutputMemoryStream(mem)
    /\ call = Called("caller", "construct", 0, <<>>, NoThrow, <<>>, FALSE)
    /\ pc = "write"

\* the effect of the address caller's write with outcome r
AddressWritten(op, r) ==
    /\ output' = r.s
    /\ mem' = r.m
    /\ call' = Called(OMS, op, job.w, job.v, r.thrown, <<>>, FALSE)
    /\ pc' = "construct"
    /\ UNCHANGED <<host, live, input, job>>

\* the effect of the address caller's read with outcome r
AddressRead(op, r) ==
    /\ input' = r.s
    /\ call' = Called(IMS, op, job.w, <<>>, r.thrown, r.value, FALSE)
    /\ pc' = "done"
    /\ UNCHANGED <<host, mem, live, output, job>>

AddressWriteIPv4 ==
    /\ pc = "write" /\ job.order = "IPv4"
    /\ AddressWritten("write_IPv4Address",
                      OutputMemoryStream_write_IPv4Address(host, mem, output, job.v))

AddressWriteIPv6 ==
    /\ pc = "write" /\ job.order = "IPv6"
    /\ AddressWritten("write_IPv6Address",
                      OutputMemoryStream_write_IPv6Address(mem, output, job.v))

AddressWriteHW ==
    /\ pc = "write" /\ job.order = "HW"
    /\ AddressWritten("write_HWAddress",
                      OutputMemoryStream_write_HWAddress(mem, output, job.v))

AddressConstruct ==
    /\ pc = "construct"
    /\ input' = InputMemoryStream(mem)
    /\ live' = live \cup {IMS}
    /\ call' = Called("caller", "construct", 0, <<>>, NoThrow, <<>>, FALSE)
    /\ pc' = "read"
    /\ UNCHANGED <<host, mem, output, job>>

AddressReadIPv4 ==
    /\ pc = "read" /\ job.order = "IPv4"
    /\ \E g \in Beyond(4) :
          AddressRead("read_IPv4Address",
                      InputMemoryStream_read_IPv4Address(host, mem, g, input))

AddressReadIPv6 ==
    /\ pc = "read" /\ job.order = "IPv6"
    /\ \E g \in Beyond(IPv6Address_address_size) :
          AddressRead("read_IPv6Address",
                      InputMemoryStream_read_IPv6Address(mem, g, input))

AddressReadHW ==
    /\ pc = "read" /\ job.order = "HW"
    /\ \E g \in Beyond(job.w) :
          AddressRead("read_HWAddress",
                      InputMemoryStream_read_HWAddress(mem, g, input, job.w))

AddressNext ==
    \/ AddressWriteIPv4 \/ AddressWriteIPv6 \/ AddressWriteHW \/ AddressConstruct
    \/ AddressReadIPv4 \/ AddressReadIPv6 \/ AddressReadHW

AddressSpec == AddressInit /\ [][AddressNext]_vars

-----------------------------------------------------------------------------
(* Claims *)

\* the InputMemoryStream operations that consume bytes
ConsumingReads ==
    {"skip", "read", "read_le", "read_be", "read_vector", "read_void",
     "read_IPv4Address", "read_IPv6Address", "read_HWAddress"}

\* C1: a call that fails (throws) on either stream leaves that stream's
\* position, remaining size and written_size() exactly as they were.
C1_AtomicOnFailure ==
    [][call'.thrown # NoThrow =>
          /\ input'.buffer_ = input.buffer_
          /\ input'.size_ = input.size_
          /\ output'.buffer_ = output.buffer_
          /\ output'.size_ = output.size_
          /\ written_size(output') = written_size(output)]_vars

\* a read that failed on a stream that had already advanced
C1_Witness ==
    /\ call.on = IMS /\ call.op = "read_be" /\ call.thrown = malformed_packet
    /\ input.buffer_ > 0 /\ input.size_ > 0

\* C2: every OutputMemoryStream operation that requests more bytes than
\* size_ fails with serialization_error, and with no other error.
C2_WriteFailsWithSerializationError ==
    [][(call'.on = OMS /\ call'.size > output.size_) =>
          call'.thrown = serialization_error]_vars

\* C3: an InputMemoryStream operation that consumes bytes throws
\* malformed_packet when it requests more than size_, and succeeds otherwise.
C3_ReadFailsIffExceeds ==
    [][(call'.on = IMS /\ call'.op \in ConsumingReads) =>
          call'.thrown = (IF call'.size > input.size_ THEN malformed_packet
                          ELSE NoThrow)]_vars

\* an address read that took exactly the bytes that were left
C3_Witness ==
    /\ call.on = IMS /\ call.op = "read_IPv6Address" /\ call.thrown = NoThrow
    /\ input.size_ = 0 /\ input.buffer_ = IPv6Address_address_size

\* size_ is exactly the number of bytes between the cursor and the region's end
Exact(s) == s.buffer_ + s.size_ = Len(mem)

\* the bytes consumed plus size_ do not exceed the region's length
Within(s) == s.buffer_ + s.size_ <= Len(mem)

\* C4 as claimed: whatever InputMemoryStream operations were called, size(size_t)
\* included, the bytes consumed plus size_ never exceed the region's length.
C4_RemainingWithinRegion == IMS \in live => Within(input)

\* C4 as amended: skip and the reads keep size_ exactly the number of bytes
\* from the cursor to the region's end; size(new_size) stores the caller's
\* value unchecked, and the bytes consumed plus size_ stay within the region
\* as long as no size(new_size) call raises size_.
C4_RemainingExactUnlessResized ==
    /\ IMS \in live => Exact(input)
    /\ [][/\ (Exact(input) /\ call'.op # "size") => Exact(input')
          /\ (Within(input) /\ ~(call'.op = "size" /\ call'.size > input.size_))
                => Within(input')]_vars

\* a read that succeeded inside a view narrowed by size(new_size)
C4_Witness ==
    /\ call.on = IMS /\ call.op = "read_vector" /\ call.thrown = NoThrow
    /\ call.size > 0 /\ input.buffer_ + input.size_ < Len(mem)

\* C5 as claimed: no InputMemoryStream operation, size(size_t) included,
\* ever leaves size_ larger than it found it.
C5_RemainingNeverIncreases ==
    [][(IMS \in live) => input'.size_ <= input.size_]_vars

\* C5 as amended: skip and the reads, failing or not, never increase size_;
\* size(new_size) sets it to new_size, which increases it exactly when
\* new_size is larger than the current value.
C5_RemainingDecreasesUnlessResized ==
    [][(IMS \in live) =>
          /\ call'.op # "size" => input'.size_ <= input.size_
          /\ call'.op = "size" => input'.size_ = call'.size]_vars

\* a skip that consumed bytes after size(new_size) had set the remaining size
C5_Witness ==
    /\ call.on = IMS /\ call.op = "skip" /\ call.thrown = NoThrow /\ call.size > 0
    /\ input.size_ > 0 /\ ~Exact(input)

\* C6: for an OutputMemoryStream over a region of length L, after any
\* operations, failing or not, written_size() + size_ = L.
C6_WrittenPlusRemaining ==
    OMS \in live => written_size(output) + OutputMemoryStream_size(output) = Len(mem)

\* a failing call on a stream that has written some bytes and has room left
C6_Witness ==
    /\ call.on = OMS /\ call.thrown # NoThrow
    /\ written_size(output) > 0 /\ output.size_ > 0

\* C7: a successful consuming InputMemoryStream operation that requests n
\* bytes leaves size_ = (size_ before) - n, with n <= size_ before, so the
\* unsigned subtraction never wraps.
C7_ReadConsumesExactly ==
    [][(call'.on = IMS /\ call'.op \in ConsumingReads /\ call'.thrown = NoThrow) =>
          /\ call'.size <= input.size_
          /\ input'.size_ = input.size_ - call'.size
          /\ input'.size_ >= 0]_vars

\* a read into a caller's buffer that consumed some but not all bytes
C7_Witness ==
    /\ call.on = IMS /\ call.op = "read_void" /\ call.thrown = NoThrow
    /\ call.size > 1 /\ input.size_ > 0

\* C8: with size_ = k, read(vector, k) succeeds and read(vector, k+1) throws
\* malformed_packet; write(ptr, k) and fill(k, b) succeed and write(ptr, k+1)
\* and fill(k+1, b) throw serialization_error; for every k, 0 included.
C8_Boundary ==
    [][/\ (call'.on = IMS /\ call'.op = "read_vector") =>
             /\ call'.size = input.size_ => call'.thrown = NoThrow
             /\ call'.size = input.size_ + 1 => call'.thrown = malformed_packet
       /\ (call'.on = OMS /\ call'.op \in {"write_ptr", "fill"}) =>
             /\ call'.size = output.size_ => call'.thrown = NoThrow
             /\ call'.size = output.size_ + 1 =>
                   call'.thrown = serialization_error]_vars

\* a one-byte fill refused by a stream with no room left (k = 0)
C8_Witness ==
    /\ call.on = OMS /\ call.op = "fill" /\ call.size = 1
    /\ call.thrown = serialization_error
    /\ output.size_ = 0 /\ written_size(output) = Len(mem) /\ Len(mem) > 0

\* C9: a value of type T written with write_le<T> (write_be<T>) into a fresh
\* buffer of sizeof(T) bytes and read back with read_le<T> (read_be<T>) from
\* an InputMemoryStream over that buffer is the value written, on a host of
\* either byte order.
C9_EndianRoundTrip ==
    pc = "done" => (call.thrown = NoThrow /\ call.ret = job.v)

\* a 64-bit value that is not its own byte reversal, read back little-endian
\* on a big-endian host
C9_Witness ==
    /\ pc = "done" /\ host = "big" /\ job.order = "le" /\ job.w = 8
    /\ job.v # Reverse(job.v) /\ call.ret = job.v /\ input.size_ = 0

\* the OutputMemoryStream operations that store bytes
Writes ==
    {"write", "write_be", "write_le", "write_range", "write_ptr",
     "write_IPv4Address", "write_IPv6Address", "write_HWAddress", "fill"}

\* C10: a successful write_le<T>(v) at written_size() = p stores the bytes of
\* v, least significant first, at offsets p, p+1, ... and write_be<T>(v)
\* stores them most significant first, advancing by sizeof(T); on a 4-byte
\* destination write_le<uint16>(0x1234) then write_le<uint16>(0x5678) leaves
\* [0x34,0x12,0x78,0x56] with written_size() = 4, and a further 1-byte write
\* throws serialization_error.
C10_WireOrderLayout ==
    [][/\ (call'.on = OMS /\ call'.op \in {"write_le", "write_be"}
               /\ call'.thrown = NoThrow) =>
             LET p == written_size(output)
                 v == call'.arg
                 n == Len(v)
             IN  /\ \A i \in 0..(n - 1) :
                       mem'[p + i + 1] =
                           (IF call'.op = "write_le" THEN v[n - i] ELSE v[i + 1])
                 /\ written_size(output') = p + n
       /\ (/\ Len(mem) = 4 /\ written_size(output) = 2
           /\ call.op = "write_le" /\ call.arg = <<18, 52>> /\ call.thrown = NoThrow
           /\ call'.op = "write_le" /\ call'.arg = <<86, 120>>) =>
             /\ call'.thrown = NoThrow
             /\ mem' = <<52, 18, 120, 86>>
             /\ written_size(output') = 4
       /\ (/\ Len(mem) = 4 /\ written_size(output) = 4
           /\ call'.on = OMS /\ call'.op \in Writes /\ call'.size = 1) =>
             call'.thrown = serialization_error]_vars

\* the second write_le<uint16> of the scenario has filled the 4-byte
\* destination; on a big-endian host only write_le(0x1234) stores [0x34,0x12]
C10_Witness ==
    /\ host = "big"
    /\ call.on = OMS /\ call.op = "write_le" /\ call.arg = <<86, 120>>
    /\ call.thrown = NoThrow
    /\ mem = <<52, 18, 120, 86>> /\ written_size(output) = 4 /\ output.size_ = 0

\* the number a value's digits denote (most significant first)
RECURSIVE NumberOf(_)
NumberOf(v) ==
    IF Len(v) = 0 THEN 0 ELSE 256 * NumberOf(SubSeq(v, 1, Len(v) - 1)) + v[Len(v)]

\* C11: read_be<T> returns the integer whose most significant byte is the
\* first of the next sizeof(T) bytes of the region and read_le<T> the one
\* whose least significant byte is first, on a host of either byte order;
\* over [0x01,0x02,0x03,0x04] read_be<uint32>() yields 0x01020304, after
\* which size() = 0 and operator bool is false.
C11_ReadWireOrder ==
    [][/\ (/\ call'.on = IMS /\ call'.op \in {"read_be", "read_le"}
           /\ call'.thrown = NoThrow
           /\ Overrun(mem, input.buffer_, call'.size) = 0) =>
             LET p == input.buffer_
                 n == call'.size
             IN  \A i \in 1..n :
                    call'.ret[i] =
                        (IF call'.op = "read_be" THEN mem[p + i] ELSE mem[p + n + 1 - i])
       /\ (/\ mem = <<1, 2, 3, 4>> /\ input.buffer_ = 0 /\ input.size_ = 4
           /\ call'.on = IMS /\ call'.op = "read_be" /\ call'.size = 4) =>
             /\ call'.thrown = NoThrow
             /\ NumberOf(call'.ret) = 16909060
             /\ InputMemoryStream_size(input') = 0
             /\ ~InputMemoryStream_bool(input')]_vars

\* Scenario A on a little-endian host, where be_to_host reorders the bytes
C11_Witness ==
    /\ host = "little" /\ mem = <<1, 2, 3, 4>>
    /\ call.on = IMS /\ call.op = "read_be" /\ call.thrown = NoThrow
    /\ call.ret = <<1, 2, 3, 4>> /\ input.size_ = 0 /\ input.buffer_ = 4

\* C12: an address written with write(address) into a destination at least
\* as long as the address and read back with read(address) from an
\* InputMemoryStream over the same bytes equals the address written; both
\* streams have advanced by exactly the address width (16 for IPv6Address,
\* n for HWAddress<n>, 4 for IPv4Address), and the bytes stored are the
\* address's own representation, with no byte-order conversion.
C12_AddressRoundTrip ==
    pc = "done" =>
        /\ call.thrown = NoThrow
        /\ call.ret = job.v
        /\ written_size(output) = job.w
        /\ OutputMemoryStream_size(output) = Len(mem) - job.w
        /\ InputMemoryStream_pointer(input) = job.w
        /\ InputMemoryStream_size(input) = Len(mem) - job.w
        /\ SubSeq(mem, 1, job.w) =
              (IF job.order = "IPv4" THEN write_value(host, job.v) ELSE job.v)
        /\ \A i \in (job.w + 1)..Len(mem) : mem[i] = 0

\* a 16-byte address read back from a destination longer than the address
C12_Witness ==
    /\ pc = "done" /\ job.order = "IPv6" /\ job.w = 16 /\ Len(mem) > 16
    /\ call.op = "read_IPv6Address" /\ call.ret = job.v
    /\ job.v # Reverse(job.v) /\ input.buffer_ = 16

\* C13: with size_ = n, skip(n) succeeds and leaves size_ = 0, while skip(n+1)
\* on the same stream throws malformed_packet and leaves size_ = n; likewise
\* read<uint32_t>() on a stream with 3 bytes left throws malformed_packet and
\* size() still reports 3.
C13_SkipBoundary ==
    [][/\ (call'.on = IMS /\ call'.op = "skip" /\ call'.size = input.size_) =>
             /\ call'.thrown = NoThrow
             /\ input'.size_ = 0
             /\ input'.buffer_ = input.buffer_ + call'.size
       /\ (call'.on = IMS /\ call'.op = "skip" /\ call'.size = input.size_ + 1) =>
             /\ call'.thrown = malformed_packet
             /\ input'.size_ = input.size_
             /\ input'.buffer_ = input.buffer_
       /\ (/\ call'.on = IMS /\ call'.op = "read" /\ call'.size = 4
           /\ input.size_ = 3) =>
             /\ call'.thrown = malformed_packet
             /\ InputMemoryStream_size(input') = 3]_vars

\* skip(n) with n > 0 equal to all that was left, from the start of a region
C13_Witness ==
    /\ call.on = IMS /\ call.op = "skip" /\ call.thrown = NoThrow
    /\ call.size = Len(mem) /\ call.size > 0
    /\ input.size_ = 0 /\ input.buffer_ = Len(mem)

\* C14: size(new_size) never throws, sets size() to exactly new_size, smaller
\* or larger than before and unchecked against the region, and leaves the
\* position unchanged; the bounds checks of the calls that follow are made
\* against the new value.
C14_TruncateSetsSize ==
    [][/\ (call'.on = IMS /\ call'.op = "size") =>
             /\ call'.thrown = NoThrow
             /\ InputMemoryStream_size(input') = call'.size
             /\ input'.buffer_ = input.buffer_
             /\ mem' = mem
       /\ (call.on = IMS /\ call.op = "size" /\ call'.op \in ConsumingReads) =>
             call'.thrown = (IF call'.size > call.size THEN malformed_packet
                             ELSE NoThrow)
       /\ (call.on = IMS /\ call.op = "size" /\ call'.op = "can_read") =>
             call'.flag = (call.size >= call'.size)]_vars

\* a read that succeeded against a size set beyond the end of the region
C14_Witness ==
    /\ call.on = IMS /\ call.op = "read_vector" /\ call.thrown = NoThrow
    /\ call.size > 0 /\ input.buffer_ + input.size_ > Len(mem)

\* C15: can_read(n) is true iff size_ >= n and operator bool is true iff
\* size_ > 0, which is can_read(1); neither changes the position, size_ or
\* the region.
C15_PureQueries ==
    [][/\ (call'.on = IMS /\ call'.op = "can_read") =>
             /\ call'.flag = (input.size_ >= call'.size)
             /\ call'.thrown = NoThrow
             /\ input' = input /\ mem' = mem
       /\ (call'.on = IMS /\ call'.op = "bool") =>
             /\ call'.flag = (input.size_ > 0)
             /\ call'.flag = can_read(input, 1)
             /\ call'.thrown = NoThrow
             /\ input' = input /\ mem' = mem]_vars

\* operator bool answering false on a stream that has consumed its region
C15_Witness ==
    /\ call.on = IMS /\ call.op = "bool" /\ call.flag = FALSE
    /\ input.size_ = 0 /\ input.buffer_ = Len(mem) /\ Len(mem) > 0

\* C16: a successful OutputMemoryStream operation of n bytes at
\* written_size() = p changes no byte outside offsets [p, p+n), and fill(n, b)
\* leaves each byte of [p, p+n) equal to b; skip(n) advances by n and changes
\* no byte; a failing operation changes no byte; so no operation changes a
\* byte at an offset below written_size().
C16_DestinationFrame ==
    [][call'.on = OMS =>
          LET p == written_size(output)
              n == call'.size
          IN  /\ Len(mem') = Len(mem)
              /\ \A i \in 1..Len(mem) : (i <= p \/ i > p + n) => mem'[i] = mem[i]
              /\ (call'.op = "fill" /\ call'.thrown = NoThrow) =>
                    /\ \A i \in (p + 1)..(p + n) : mem'[i] = call'.arg[1]
                    /\ written_size(output') = p + n
              /\ (call'.op = "skip") => mem' = mem
              /\ (call'.op = "skip" /\ call'.thrown = NoThrow) =>
                    written_size(output') = p + n
              /\ (call'.thrown # NoThrow) => mem' = mem]_vars

\* a fill of the last two bytes that left the two bytes written before it alone
C16_Witness ==
    /\ call.on = OMS /\ call.op = "fill" /\ call.thrown = NoThrow
    /\ call.size = 2 /\ written_size(output) = 4
    /\ mem = <<222, 173, 255, 255>>

\* C17: on a stream whose size_ has not been altered by size(new_size), with
\* c bytes consumed so far by the successful skips and reads, a successful
\* read(vector, n) or read(void*, n) returns bytes c .. c+n-1 of the region in
\* order and leaves c+n consumed; every successful skip or read consumes
\* exactly the bytes it requested, inside the region; a failing one consumes
\* nothing; the region itself is never changed.
C17_SequentialDelivery ==
    [][(call'.on = IMS /\ Exact(input)) =>
          LET c == InputMemoryStream_pointer(input)
              n == call'.size
          IN  /\ mem' = mem
              /\ (call'.op \in {"read_vector", "read_void"}
                      /\ call'.thrown = NoThrow) =>
                    call'.ret = SubSeq(mem, c + 1, c + n)
              /\ (call'.op \in ConsumingReads /\ call'.thrown = NoThrow) =>
                    /\ InputMemoryStream_pointer(input') = c + n
                    /\ c + n <= Len(mem)
              /\ (call'.thrown # NoThrow) =>
                    InputMemoryStream_pointer(input') = c]_vars

\* two bytes copied out from the middle of the region, after one was consumed
C17_Witness ==
    /\ call.on = IMS /\ call.op = "read_void" /\ call.thrown = NoThrow
    /\ Exact(input) /\ call.size = 2 /\ InputMemoryStream_pointer(input) = 3
    /\ Len(mem) = 4 /\ call.ret = SubSeq(mem, 2, 3)

\* an OutputMemoryStream request of n bytes that failed
FailedWith(n) == call.on = OMS /\ call.thrown # NoThrow /\ call.size = n

\* no OutputMemoryStream request of n bytes or more has succeeded
NoneSucceeds(n) == (call.on = OMS /\ call.size >= n) => call.thrown # NoThrow

\* C18: no OutputMemoryStream operation increases size() or decreases
\* written_size(); an operation requesting more than size() fails; once an
\* operation requesting n bytes has failed, every later operation requesting
\* n or more fails; with size() = 0 only zero-length operations succeed.
C18_ExhaustionPermanent ==
    /\ [][call'.on = OMS =>
             /\ OutputMemoryStream_size(output') <= OutputMemoryStream_size(output)
             /\ written_size(output') >= written_size(output)
             /\ call'.size > OutputMemoryStream_size(output) =>
                   call'.thrown # NoThrow
             /\ (OutputMemoryStream_size(output) = 0 /\ call'.thrown = NoThrow) =>
                   call'.size = 0]_vars
    /\ \A n \in 0..(MaxLen + 1) : [](FailedWith(n) => []NoneSucceeds(n))

\* a two-byte write refused with one byte of room left
C18_Witness ==
    /\ call.on = OMS /\ call.op = "write_le" /\ call.size = 2
    /\ call.thrown = serialization_error
    /\ OutputMemoryStream_size(output) = 1 /\ written_size(output) = 3

\* the zero-length operations
ZeroLengthOps ==
    {<<IMS, "skip">>, <<IMS, "read_vector">>, <<IMS, "read_void">>,
     <<OMS, "skip">>, <<OMS, "write_ptr">>, <<OMS, "write_range">>,
     <<OMS, "fill">>}

\* C19: in every reachable state, a stream with size() = 0 included, skip(0),
\* read(vector, 0) and read(void*, 0) on an InputMemoryStream and skip(0),
\* write(ptr, 0), write(s, s) and fill(0, b) on an OutputMemoryStream throw
\* nothing and leave the position, size(), written_size() and every byte as
\* they were; read(vector, 0) yields an empty vector.
C19_ZeroLengthNoOp ==
    /\ [](/\ IMS \in live =>
               /\ InputMemoryStream_skip(input, 0) =
                     [thrown |-> NoThrow, s |-> input, value |-> <<>>]
               /\ InputMemoryStream_read_vector(mem, <<>>, input, 0) =
                     [thrown |-> NoThrow, s |-> input, value |-> <<>>]
               /\ InputMemoryStream_read_void(mem, <<>>, input, 0) =
                     [thrown |-> NoThrow, s |-> input, value |-> <<>>]
          /\ OMS \in live =>
               LET same == [thrown |-> NoThrow, s |-> output, m |-> mem]
               IN  /\ OutputMemoryStream_skip(mem, output, 0) = same
                   /\ OutputMemoryStream_write_ptr(mem, output, <<>>) = same
                   /\ OutputMemoryStream_write_range(mem, output, <<>>) = same
                   /\ \A b \in FillBytes : fill(mem, output, 0, b) = same)
    /\ [][(<<call'.on, call'.op>> \in ZeroLengthOps /\ call'.size = 0) =>
             /\ call'.thrown = NoThrow
             /\ call'.ret = <<>>
             /\ input' = input /\ output' = output /\ mem' = mem]_vars

\* an empty range written to a stream with no room left
C19_Witness ==
    /\ call.on = OMS /\ call.op = "write_range" /\ call.size = 0
    /\ call.thrown = NoThrow
    /\ OutputMemoryStream_size(output) = 0 /\ written_size(output) = Len(mem)
    /\ Len(mem) > 0

====
